---- MODULE Spec2Model ----
(***************************************************************************)
(* WildGuard: the late-fusion engine (ml_services/late_fusion.py), the     *)
(* detection store with the field-operator and detection views             *)
(* (user_module/views.py, detection/views.py), and the detection generator *)
(* with its worker thread (detection/detection_generator.py).              *)
(*                                                                         *)
(* Representation of Python values                                         *)
(*   None            the record PyNone                                     *)
(*   dict            a record whose fields are the keys that are present   *)
(*                   (the empty dict is the empty function)                *)
(*   float           an exact decimal fixed-point integer:                 *)
(*                     a weight          counts 1/WeightScale  (0.001)     *)
(*                     an input confidence counts 1/ConfScale  (0.00001)   *)
(*                     a fused confidence  counts 1/FusedScale (1e-8)      *)
(*                     a round(x, 4) value counts 1/RoundScale (0.0001)    *)
(*                   Binary rounding error of IEEE doubles is not          *)
(*                   modelled; the inputs avoid sums that lie exactly on   *)
(*                   the 0.01 weight tolerance.                            *)
(***************************************************************************)
EXTENDS Integers, Sequences, FiniteSets, TLC

VARIABLES
    engine,      \* the LateFusionEngine last constructed, or what its constructor raised
    visual_in,   \* the image detector output held for the next fuse call, or PyNone
    audio_in,    \* the audio detector output held for the next fuse call, or PyNone
    result,      \* what fuse returned (the fused_result dict) or raised for them; PyNone before the call
    detections,  \* db.detections: sequence of detection documents, in insertion order
    cameras,     \* db.camera_traps: camera id -> camera document
    response,    \* the response of the request being served, PyNone when none is pending
    alerts,      \* db.emergency_alerts: sequence of alert documents, in insertion order
    generator_thread, \* _generator_thread: PyNone or [thread |-> index in threads]
    stop_event,  \* _stop_event: TRUE when the flag is set
    threads,     \* every Thread object created by start_generator, in creation order
    callers,     \* caller id -> its position inside start_generator / stop_generator
    stop_called  \* history: stop_generator has been entered at least once

genVars == <<alerts, generator_thread, stop_event, threads, callers, stop_called>>

vars == <<engine, visual_in, audio_in, result, detections, cameras, response, genVars>>

PyNone == [py |-> "None"]

EmptyDict == [k \in {} |-> 0]

\* dict.get(key, default)
Get(d, key, default) == IF key \in DOMAIN d THEN d[key] ELSE default

\* Python truthiness of an Optional[Dict]: None and {} are falsy
Truthy(d) == d # PyNone /\ DOMAIN d # {}

WeightScale == 10^3
ConfScale == 10^5
FusedScale == WeightScale * ConfScale
RoundScale == 10^4

\* round half to even of x / d, for d > 0 (\div floors, % is non-negative)
RoundHalfEven(x, d) ==
    LET q == x \div d
        r == x % d
    IN  IF 2 * r < d THEN q
        ELSE IF 2 * r > d THEN q + 1
        ELSE IF q % 2 = 0 THEN q ELSE q + 1

\* round(fusion_confidence, 4): from 1/FusedScale to 1/RoundScale
RoundFused4(x) == RoundHalfEven(x, FusedScale \div RoundScale)

\* round(visual_conf, 4), round(audio_conf, 4): from 1/ConfScale to 1/RoundScale
RoundConf4(x) == RoundHalfEven(x, ConfScale \div RoundScale)

(***************************************************************************)
(* LateFusionEngine                                                        *)
(***************************************************************************)
ESCALATION_RULES ==
    [p \in {<<"human", "gunshot">>, <<"human", "chainsaw">>, <<"human", "vehicle">>,
            <<"vehicle", "gunshot">>, <<"poacher", "gunshot">>} |->
        CASE p = <<"human", "gunshot">>   -> [alert_level |-> "critical", label |-> "armed_poacher"]
          [] p = <<"human", "chainsaw">>  -> [alert_level |-> "critical", label |-> "illegal_logging"]
          [] p = <<"human", "vehicle">>   -> [alert_level |-> "high", label |-> "suspicious_vehicle"]
          [] p = <<"vehicle", "gunshot">> -> [alert_level |-> "critical", label |-> "armed_vehicle"]
          [] p = <<"poacher", "gunshot">> -> [alert_level |-> "critical", label |-> "confirmed_poacher"]]

\* mutant: the constructor compares the signed difference, not its absolute value
LateFusionEngineInit_NoAbs(visual_weight, audio_weight) ==
    IF 100 * ((visual_weight + audio_weight) - WeightScale) > WeightScale
    THEN [raised |-> "ValueError", message |-> "Weights must sum to 1.0"]
    ELSE [visual_weight |-> visual_weight,
          audio_weight |-> audio_weight,
          fusion_method |-> "weighted_average"]

\* LateFusionEngine.__init__: the engine object, or the ValueError it raises
LateFusionEngineInit(visual_weight, audio_weight) ==
    LET s == (visual_weight + audio_weight) - WeightScale
        abs == IF s < 0 THEN 0 - s ELSE s
    IN  IF 100 * abs > WeightScale
        THEN [raised |-> "ValueError", message |-> "Weights must sum to 1.0"]
        ELSE [visual_weight |-> visual_weight,
              audio_weight |-> audio_weight,
              fusion_method |-> "weighted_average"]

\* mutant: thresholds exclusive, a boundary value falls to the lower level
ConfidenceToAlert_Exclusive(confidence) ==
    IF confidence > 90 * (FusedScale \div 100) THEN "critical"
    ELSE IF confidence > 80 * (FusedScale \div 100) THEN "high"
    ELSE IF confidence > 65 * (FusedScale \div 100) THEN "medium"
    ELSE IF confidence > 50 * (FusedScale \div 100) THEN "low"
    ELSE "none"

\* _confidence_to_alert, on a confidence counted in 1/FusedScale
ConfidenceToAlert(confidence) ==
    IF confidence >= 90 * (FusedScale \div 100) THEN "critical"
    ELSE IF confidence >= 80 * (FusedScale \div 100) THEN "high"
    ELSE IF confidence >= 65 * (FusedScale \div 100) THEN "medium"
    ELSE IF confidence >= 50 * (FusedScale \div 100) THEN "low"
    ELSE "none"

\* mutant: a tie of the two confidences goes to the audio label
DeterminePrimaryObject_TieToAudio(visual_object, audio_class, visual_conf, audio_conf) ==
    IF visual_object # "" /\ audio_class # ""
    THEN IF visual_conf > audio_conf THEN visual_object ELSE audio_class
    ELSE IF visual_object # "" THEN visual_object
    ELSE IF audio_class # "" THEN audio_class
    ELSE "unknown"

\* _determine_primary_object (confidences counted in 1/ConfScale)
DeterminePrimaryObject(visual_object, audio_class, visual_conf, audio_conf) ==
    IF visual_object # "" /\ audio_class # ""
    THEN IF visual_conf >= audio_conf THEN visual_object ELSE audio_class
    ELSE IF visual_object # "" THEN visual_object
    ELSE IF audio_class # "" THEN audio_class
    ELSE "unknown"

\* mutant: the rule table is looked up with the key's two labels swapped
CheckEscalation_SwappedKey(visual_object, audio_class) ==
    IF <<audio_class, visual_object>> \in DOMAIN ESCALATION_RULES
    THEN ESCALATION_RULES[<<audio_class, visual_object>>]
    ELSE PyNone

\* _check_escalation: ESCALATION_RULES.get((visual_object, audio_class))
CheckEscalation(visual_object, audio_class) ==
    IF <<visual_object, audio_class>> \in DOMAIN ESCALATION_RULES
    THEN ESCALATION_RULES[<<visual_object, audio_class>>]
    ELSE PyNone

\* mutant: the two weights applied to the wrong modality
FusionConfidence_SwappedWeights(self, has_visual, has_audio, visual_conf, audio_conf) ==
    IF has_visual /\ has_audio
    THEN self.audio_weight * visual_conf + self.visual_weight * audio_conf
    ELSE IF has_visual THEN WeightScale * visual_conf
    ELSE WeightScale * audio_conf

\* the fused confidence of fuse, counted in 1/FusedScale
FusionConfidence(self, has_visual, has_audio, visual_conf, audio_conf) ==
    IF has_visual /\ has_audio
    THEN self.visual_weight * visual_conf + self.audio_weight * audio_conf
    ELSE IF has_visual THEN WeightScale * visual_conf
    ELSE WeightScale * audio_conf

\* fusion_type of fuse
FusionType(has_visual, has_audio) ==
    IF has_visual /\ has_audio THEN "full"
    ELSE IF has_visual THEN "visual_only"
    ELSE "audio_only"

\* the escalation rule fuse applies, PyNone when none
Escalation(has_visual, has_audio, visual_object, audio_class) ==
    IF has_visual /\ has_audio
    THEN CheckEscalation(visual_object, audio_class)
    ELSE PyNone

\* LateFusionEngine.fuse past its argument check: the fused_result dict
FusedResult(self, visual_result, audio_result) ==
    LET visual_conf == IF Truthy(visual_result) THEN Get(visual_result, "confidence", 0) ELSE 0
        audio_conf == IF Truthy(audio_result) THEN Get(audio_result, "confidence", 0) ELSE 0
        visual_object == IF Truthy(visual_result) THEN Get(visual_result, "detected_object", "") ELSE ""
        audio_class == IF Truthy(audio_result) THEN Get(audio_result, "predicted_class", "") ELSE ""
        has_visual == visual_result # PyNone
        has_audio == audio_result # PyNone
        fusion_confidence == FusionConfidence(self, has_visual, has_audio, visual_conf, audio_conf)
        escalation == Escalation(has_visual, has_audio, visual_object, audio_class)
        escalated == Truthy(escalation)
    IN  [fusion_method |-> self.fusion_method,
         fusion_type |-> FusionType(has_visual, has_audio),
         sources |-> IF has_visual /\ has_audio THEN <<"image", "audio">>
                     ELSE IF has_visual THEN <<"image">> ELSE <<"audio">>,
         visual_confidence |-> IF has_visual THEN RoundConf4(visual_conf) ELSE PyNone,
         audio_confidence |-> IF has_audio THEN RoundConf4(audio_conf) ELSE PyNone,
         visual_object |-> IF has_visual THEN visual_object ELSE PyNone,
         audio_class |-> IF has_audio THEN audio_class ELSE PyNone,
         fusion_confidence |-> RoundFused4(fusion_confidence),
         detected_object |-> IF escalated THEN escalation.label
                             ELSE DeterminePrimaryObject(visual_object, audio_class,
                                                         visual_conf, audio_conf),
         alert_level |-> IF escalated THEN escalation.alert_level
                         ELSE ConfidenceToAlert(fusion_confidence),
         escalation_applied |-> escalation # PyNone,
         escalation_rule |-> IF escalated THEN visual_object \o "+" \o audio_class ELSE PyNone,
         weights |-> [visual |-> self.visual_weight, audio |-> self.audio_weight]]

\* mutant: fuse without its check that a modality is provided
fuse_NoInputCheck(self, visual_result, audio_result) ==
    FusedResult(self, visual_result, audio_result)

\* LateFusionEngine.fuse: the fused_result dict, or the ValueError it raises
fuse(self, visual_result, audio_result) ==
    IF visual_result = PyNone /\ audio_result = PyNone
    THEN [raised |-> "ValueError", message |-> "At least one modality must be provided"]
    ELSE FusedResult(self, visual_result, audio_result)

(***************************************************************************)
(* Inputs                                                                  *)
(***************************************************************************)
\* number of equal steps of the confidence grid laid over [0, 1]
GridSteps == 4

\* constructor arguments, in 1/WeightScale (the defaults are 600 and 400)
WeightValues == {0, 395, 400, 405, 415, 600, 1000}

\* input confidences, in 1/ConfScale: the grid, the threshold boundaries and their
\* neighbours, and two values outside [0, 1]
ConfValues ==
    {(i * ConfScale) \div GridSteps : i \in 0..GridSteps}
    \cup {49990, 50000, 65000, 80000, 89990, 89996, 90000}
    \cup {-10000, 150000}

\* image detector outputs: every confidence with a rule label, a non-rule label and
\* the empty label; the other rule labels at the documented example confidence;
\* dicts with missing keys
VisualResults ==
    {PyNone, EmptyDict}
    \cup {[confidence |-> c, detected_object |-> l] : c \in ConfValues, l \in {"human", "elephant", ""}}
    \cup {[confidence |-> 85000, detected_object |-> l] : l \in {"human", "vehicle", "poacher"}}
    \cup {[confidence |-> 90000], [detected_object |-> "human"]}

\* audio detector outputs, likewise
AudioResults ==
    {PyNone, EmptyDict}
    \cup {[confidence |-> c, predicted_class |-> l] : c \in ConfValues, l \in {"gunshot", "elephant", ""}}
    \cup {[confidence |-> 92000, predicted_class |-> l] : l \in {"gunshot", "chainsaw", "vehicle"}}
    \cup {[confidence |-> 90000], [predicted_class |-> "gunshot"]}

IsEngine(e) == e # PyNone /\ "raised" \notin DOMAIN e.obj

(***************************************************************************)
(* The detection store and the views that return detections                *)
(***************************************************************************)
\* most detections the store holds
MaxDetections == 2

\* the present time and the creation time of the detections, in days: a detection is
\* two days old, inside the default window of 7 days and outside a window of 1 day
Now == 30
CreatedAts == {Now - 2}

AlertLevels == {"none", "low", "medium", "high", "critical"}

\* db.camera_traps: one active and one inactive camera
CameraTraps ==
    [c \in {"cam1", "cam2"} |-> [name |-> c, is_active |-> (c = "cam1")]]

\* db.users: a field operator assigned to cam1, and an administrator
Users ==
    [u \in {"ranger", "admin"} |->
        IF u = "ranger" THEN [role |-> "user", assigned_cameras |-> {"cam1"}]
        ELSE [role |-> "admin", assigned_cameras |-> {}]]

\* a MongoDB equality match {key: value}: a document without the key does not match
Match(d, key, value) == key \in DOMAIN d /\ d[key] = value

\* a MongoDB match {key: {'$in': values}}
MatchIn(d, key, values) == key \in DOMAIN d /\ d[key] \in values

\* the documents of the store, as a set
Docs == {detections[i] : i \in 1..Len(detections)}

\* sort('created_at', -1): newest first, documents of equal time in store order
RECURSIVE SortNewestFirst(_)
SortNewestFirst(S) ==
    IF S = {} THEN <<>>
    ELSE LET first == CHOOSE d \in S : \A e \in S :
                          \/ d.created_at > e.created_at
                          \/ (d.created_at = e.created_at /\ d._id <= e._id)
         IN  <<first>> \o SortNewestFirst(S \ {first})

\* limit(n) and the slice [offset : offset + limit]
Slice(seq, offset, limit) ==
    SubSeq(seq, offset + 1, IF offset + limit < Len(seq) THEN offset + limit ELSE Len(seq))

\* {'is_active': True} on db.camera_traps
ActiveCameraIds == {c \in DOMAIN cameras : cameras[c].is_active}

\* the documents the generator and ingestion write: no verification field is set
NewDetections ==
    {[_id |-> Len(detections) + 1, camera_trap |-> c, created_at |-> t, alert_level |-> a] :
        c \in DOMAIN cameras, t \in CreatedAts, a \in AlertLevels}

\* request.GET.get('severity') or request.GET.get('level'); "" when neither is given
SeverityFilter(GET) ==
    IF "severity" \in DOMAIN GET /\ GET.severity # "" THEN GET.severity
    ELSE IF "level" \in DOMAIN GET /\ GET.level # "" THEN GET.level
    ELSE ""

\* the $or clause shared by user_alerts and user_dashboard
VisibilityClause(d) ==
    \/ Match(d, "is_verified", TRUE)
    \/ MatchIn(d, "alert_level", {"critical", "high"})

\* mutant: a severity filter replaces the whole visibility rule
UserAlertsQuery_FilterReplacesRule(d, GET) ==
    /\ d.created_at >= Now - Get(GET, "days", 7)
    /\ MatchIn(d, "camera_trap", ActiveCameraIds)
    /\ IF SeverityFilter(GET) # ""
       THEN Match(d, "alert_level", SeverityFilter(GET))
       ELSE /\ MatchIn(d, "alert_level", {"medium", "high", "critical"})
            /\ VisibilityClause(d)

\* the query user_alerts builds from the request
UserAlertsQuery(d, GET) ==
    /\ d.created_at >= Now - Get(GET, "days", 7)
    /\ MatchIn(d, "camera_trap", ActiveCameraIds)
    /\ IF SeverityFilter(GET) # ""
       THEN Match(d, "alert_level", SeverityFilter(GET))
       ELSE MatchIn(d, "alert_level", {"medium", "high", "critical"})
    /\ VisibilityClause(d)

\* the query of user_dashboard's recent_detections
RecentDetectionsQuery(d) ==
    /\ MatchIn(d, "camera_trap", ActiveCameraIds)
    /\ VisibilityClause(d)

USER_ALERTS_LIMIT == 50
RECENT_DETECTIONS_LIMIT == 10
DEFAULT_LIMIT == 20

\* the record a view returns for a detection; default_level is the view's default for
\* a document without alert_level
Item(d, default_level) ==
    [id |-> d._id,
     alert_level |-> Get(d, "alert_level", default_level),
     is_verified |-> Get(d, "is_verified", FALSE)]

\* evidence_data of evidence_viewer: it carries no verification field
EvidenceItem(d) ==
    [id |-> d._id, alert_level |-> Get(d, "alert_level", "none")]

Items(seq, default_level) == [i \in 1..Len(seq) |-> Item(seq[i], default_level)]

\* the query list_detections builds from the request
ListDetectionsQuery(d, GET) ==
    /\ ("alert_level" \in DOMAIN GET /\ GET.alert_level # "")
           => Match(d, "alert_level", GET.alert_level)
    /\ ("verified" \in DOMAIN GET /\ GET.verified # "")
           => Match(d, "is_verified", GET.verified = "true")

\* evidence_viewer's access check: a 'user' caller needs the camera assigned
EvidenceAccessDenied(user, d) ==
    Users[user].role = "user" /\ d.camera_trap \notin Users[user].assigned_cameras

\* requests
AlertRequests ==
    {EmptyDict, [severity |-> "low"], [level |-> "critical"], [days |-> 1],
     [severity |-> "medium", days |-> 30]}

ListRequests ==
    {EmptyDict, [alert_level |-> "medium"], [verified |-> "false"], [verified |-> "true"]}

VerifyBodies == {[verified |-> TRUE], [verified |-> FALSE]}

DetectionIds == 1..MaxDetections

\* the fields the Detection model declares (with the document id)
DetectionFields ==
    {"_id", "camera_trap", "detection_type", "detected_object", "confidence", "alert_level",
     "image_url", "objects_detected", "audio_url", "audio_classification_probabilities",
     "inference_time_ms", "species_suspected", "is_verified", "verified_by",
     "false_positive", "notes", "created_at"}

\* Detection.objects.get and save succeed on the stored document: it has no field the
\* model does not declare and its detection_type is one of the model's choices
Loadable(d) ==
    /\ DOMAIN d \ DetectionFields = {}
    /\ Get(d, "detection_type", "image") \in {"image", "audio"}

\* request bodies of verify_detection with every combination of the two flags
VerifyRequests ==
    {EmptyDict,
     [verified |-> TRUE],
     [verified |-> FALSE, false_positive |-> TRUE],
     [verified |-> TRUE, false_positive |-> TRUE, notes |-> "duplicate"]}

\* the threads that call start_generator / stop_generator
CallerIds == {"c1", "c2"}

\* module state of detection_generator.py after import: no thread, the flag unset,
\* nobody inside start_generator or stop_generator; the alert collection is empty
GeneratorIdle ==
    /\ alerts = <<>>
    /\ generator_thread = PyNone
    /\ stop_event = FALSE
    /\ threads = <<>>
    /\ callers = [c \in CallerIds |-> "idle"]
    /\ stop_called = FALSE

(***************************************************************************)
(* State machine                                                           *)
(***************************************************************************)
Init ==
    /\ engine = PyNone
    /\ visual_in = PyNone
    /\ audio_in = PyNone
    /\ result = PyNone
    /\ detections = <<>>
    /\ cameras = CameraTraps
    /\ response = PyNone
    /\ GeneratorIdle

\* engine = LateFusionEngine(visual_weight, audio_weight), by a caller that holds no
\* detector output yet
Construct ==
    \E vw \in WeightValues, aw \in WeightValues :
        /\ engine' = [args |-> <<vw, aw>>, obj |-> LateFusionEngineInit(vw, aw)]
        /\ visual_in' = PyNone
        /\ audio_in' = PyNone
        /\ result' = PyNone
        /\ UNCHANGED <<detections, cameras, response, genVars>>

\* the holder of an engine obtains the image detector's output for the next fuse call
VisualInput ==
    /\ IsEngine(engine)
    /\ \E v \in VisualResults : visual_in' = v
    /\ result' = PyNone
    /\ UNCHANGED <<engine, audio_in, detections, cameras, response, genVars>>

\* the holder of an engine obtains the audio detector's output for the next fuse call
AudioInput ==
    /\ IsEngine(engine)
    /\ \E a \in AudioResults : audio_in' = a
    /\ result' = PyNone
    /\ UNCHANGED <<engine, visual_in, detections, cameras, response, genVars>>

\* result = engine.fuse(visual_result, audio_result)
Fuse ==
    /\ IsEngine(engine)
    /\ result' = fuse(engine.obj, visual_in, audio_in)
    /\ UNCHANGED <<engine, visual_in, audio_in, detections, cameras, response, genVars>>

Next == Construct \/ VisualInput \/ AudioInput \/ Fuse

Spec == Init /\ [][Next]_vars

\* a detection is written to the store (generator, ingestion)
InsertDetection ==
    /\ response = PyNone
    /\ Len(detections) < MaxDetections
    /\ \E d \in NewDetections : detections' = Append(detections, d)
    /\ UNCHANGED <<engine, visual_in, audio_in, result, cameras, response, genVars>>

\* mutant: the save writes a document made of the verification fields alone
VerifyWith_ReplacesDocument(bodies) ==
    /\ response = PyNone
    /\ \E user \in DOMAIN Users, id \in DetectionIds, data \in bodies :
        IF Users[user].role # "admin"
        THEN /\ response' = [op |-> "verify_detection", user |-> user, status |-> 403, data |-> <<>>]
             /\ UNCHANGED detections
        ELSE IF id > Len(detections)
        THEN /\ response' = [op |-> "verify_detection", user |-> user, status |-> 404, data |-> <<>>]
             /\ UNCHANGED detections
        ELSE IF ~Loadable(detections[id])
        THEN /\ response' = [op |-> "verify_detection", user |-> user, status |-> 500, data |-> <<>>]
             /\ UNCHANGED detections
        ELSE /\ detections' =
                 [detections EXCEPT ![id] =
                     [_id |-> detections[id]._id,
                      is_verified |-> Get(data, "verified", FALSE),
                      false_positive |-> Get(data, "false_positive", FALSE),
                      notes |-> Get(data, "notes", ""),
                      verified_by |-> user]]
             /\ response' = [op |-> "verify_detection", user |-> user, status |-> 200, data |-> <<>>]
    /\ UNCHANGED <<engine, visual_in, audio_in, result, cameras, genVars>>

\* verify_detection with a request body of bodies: admin only; a stored document the
\* Detection model cannot load and validate ends in the except clause (status 500);
\* otherwise the four verification fields of the detection are set and saved
VerifyWith(bodies) ==
    /\ response = PyNone
    /\ \E user \in DOMAIN Users, id \in DetectionIds, data \in bodies :
        IF Users[user].role # "admin"
        THEN /\ response' = [op |-> "verify_detection", user |-> user, status |-> 403, data |-> <<>>]
             /\ UNCHANGED detections
        ELSE IF id > Len(detections)
        THEN /\ response' = [op |-> "verify_detection", user |-> user, status |-> 404, data |-> <<>>]
             /\ UNCHANGED detections
        ELSE IF ~Loadable(detections[id])
        THEN /\ response' = [op |-> "verify_detection", user |-> user, status |-> 500, data |-> <<>>]
             /\ UNCHANGED detections
        ELSE /\ detections' =
                 [detections EXCEPT ![id] =
                     [is_verified |-> Get(data, "verified", FALSE),
                      false_positive |-> Get(data, "false_positive", FALSE),
                      notes |-> Get(data, "notes", ""),
                      verified_by |-> user] @@ detections[id]]
             /\ response' = [op |-> "verify_detection", user |-> user, status |-> 200, data |-> <<>>]
    /\ UNCHANGED <<engine, visual_in, audio_in, result, cameras, genVars>>

\* verify_detection, with the bodies the admin page sends
VerifyDetection == VerifyWith(VerifyBodies)

\* user_alerts
UserAlerts ==
    /\ response = PyNone
    /\ \E user \in DOMAIN Users, GET \in AlertRequests :
        response' =
            [op |-> "user_alerts", user |-> user, status |-> 200, GET |-> GET,
             data |-> Items(Slice(SortNewestFirst({d \in Docs : UserAlertsQuery(d, GET)}),
                                  0, USER_ALERTS_LIMIT), "medium")]
    /\ UNCHANGED <<engine, visual_in, audio_in, result, detections, cameras, genVars>>

\* user_dashboard (its recent_detections)
UserDashboard ==
    /\ response = PyNone
    /\ \E user \in DOMAIN Users :
        response' =
            [op |-> "user_dashboard", user |-> user, status |-> 200,
             data |-> Items(Slice(SortNewestFirst({d \in Docs : RecentDetectionsQuery(d)}),
                                  0, RECENT_DETECTIONS_LIMIT), "low")]
    /\ UNCHANGED <<engine, visual_in, audio_in, result, detections, cameras, genVars>>

\* evidence_viewer
EvidenceViewer ==
    /\ response = PyNone
    /\ \E user \in DOMAIN Users, id \in DetectionIds :
        response' =
            IF id > Len(detections)
            THEN [op |-> "evidence_viewer", user |-> user, status |-> 404, data |-> <<>>]
            ELSE IF EvidenceAccessDenied(user, detections[id])
            THEN [op |-> "evidence_viewer", user |-> user, status |-> 403, data |-> <<>>]
            ELSE [op |-> "evidence_viewer", user |-> user, status |-> 200,
                  data |-> <<EvidenceItem(detections[id])>>]
    /\ UNCHANGED <<engine, visual_in, audio_in, result, detections, cameras, genVars>>

\* list_detections
ListDetections ==
    /\ response = PyNone
    /\ \E user \in DOMAIN Users, GET \in ListRequests :
        response' =
            [op |-> "list_detections", user |-> user, status |-> 200,
             data |-> Items(Slice(SortNewestFirst({d \in Docs : ListDetectionsQuery(d, GET)}),
                                  Get(GET, "offset", 0), Get(GET, "limit", DEFAULT_LIMIT)), "none")]
    /\ UNCHANGED <<engine, visual_in, audio_in, result, detections, cameras, genVars>>

\* detection_detail
DetectionDetail ==
    /\ response = PyNone
    /\ \E user \in DOMAIN Users, id \in DetectionIds :
        response' =
            IF id > Len(detections)
            THEN [op |-> "detection_detail", user |-> user, status |-> 404, data |-> <<>>]
            ELSE [op |-> "detection_detail", user |-> user, status |-> 200,
                  data |-> <<Item(detections[id], "none")>>]
    /\ UNCHANGED <<engine, visual_in, audio_in, result, detections, cameras, genVars>>

\* the response is sent; the next request can be served
Deliver ==
    /\ response # PyNone
    /\ response' = PyNone
    /\ UNCHANGED <<engine, visual_in, audio_in, result, detections, cameras, genVars>>

ViewNext ==
    \/ InsertDetection
    \/ VerifyDetection
    \/ UserAlerts
    \/ UserDashboard
    \/ EvidenceViewer
    \/ ListDetections
    \/ DetectionDetail
    \/ Deliver

ViewSpec == Init /\ [][ViewNext]_vars

(***************************************************************************)
(* The detection generator (detection/detection_generator.py)              *)
(*                                                                         *)
(* A Thread object is a record [pc, remaining, made, pending, due]: pc is   *)
(* the position of detection_generator_loop ("created" before start(),     *)
(* "failed" / "stopped" after the loop function returned), remaining the   *)
(* ordinary generation calls left in the batch, made the detections the    *)
(* ordinary calls of the batch have inserted so far, pending the alert_doc *)
(* built but not yet inserted, due whether the interval of the sleep or    *)
(* wait the thread is in has passed.  An alert document is identified by   *)
(* its position in alerts; its description and location are left out.      *)
(***************************************************************************)
\* cap on the Thread objects created in one behaviour
MaxThreads == 2

\* cap on the stored detections at which a generation call still begins
MaxStored == 2

ThreadIds == 1..MaxThreads

\* get_dataset_paths: the sample files; a file is its name and the animal types that
\* occur in its lower-cased name
Datasets ==
    [animal_images |-> {[name |-> "deer_01.jpg", mentions |-> {"deer"}]},
     human_images |-> {[name |-> "person_01.jpg", mentions |-> {}]},
     gunshot_audio |-> {[name |-> "gunshot_01.wav", mentions |-> {}]},
     human_audio |-> {[name |-> "voices_01.wav", mentions |-> {}]}]

ANIMAL_TYPES == <<"bear", "deer", "elephant", "fox", "leopard", "lion", "monkey", "tiger">>

\* the first animal type found in the file name, else 'wildlife'
DetectedAnimal(img) ==
    LET hits == {i \in DOMAIN ANIMAL_TYPES : ANIMAL_TYPES[i] \in img.mentions}
    IN  IF hits = {} THEN "wildlife"
        ELSE ANIMAL_TYPES[CHOOSE i \in hits : \A j \in hits : i <= j]

\* random.uniform(lo, hi), in 1/ConfScale, where the value decides nothing further
\* (a single-modality confidence): one value of the range
Uniform(lo, hi) == {lo}

\* random.uniform(lo, hi), in 1/ConfScale, where the value is fused: both ends
UniformEnds(lo, hi) == {lo, hi}

\* a round(x, 4) value in 1/ConfScale
FromRound4(r) == r * (ConfScale \div RoundScale)

\* the labels in which 'poacher' occurs
PoacherLabels == {"armed_poacher", "confirmed_poacher", "poacher"}

\* a generation call that inserts nothing
NoDetection == [detection |-> PyNone, alert |-> PyNone]

\* detection_doc as first built
BaseDoc(id, camera) == [_id |-> id, camera_trap |-> camera, created_at |-> Now]

\* alert_doc
AlertDoc(id, camera, alert_type, severity) ==
    [alert_type |-> alert_type, detection |-> id, camera_trap |-> camera,
     severity |-> severity, is_resolved |-> FALSE, created_at |-> Now]

\* the animal branch of generate_detection_with_pymongo
AnimalChoices(id, camera) ==
    {[detection |-> [detection_type |-> "image", detected_object |-> DetectedAnimal(img),
                     confidence |-> conf, alert_level |-> level, image_url |-> img.name]
                    @@ BaseDoc(id, camera),
      alert |-> PyNone] :
        img \in Datasets.animal_images, conf \in Uniform(75000, 98000),
        level \in {"low", "low", "medium"}}

\* the human branch
HumanChoices(id, camera) ==
    UNION {
        LET doc == [detection_type |-> "image", detected_object |-> "human",
                    confidence |-> conf,
                    alert_level |-> IF is_suspicious THEN "high" ELSE "medium",
                    image_url |-> img.name] @@ BaseDoc(id, camera)
        IN  IF is_suspicious
            THEN {[detection |-> doc, alert |-> AlertDoc(id, camera, alert_type, severity)] :
                     alert_type \in {"armed_person", "vehicle_in_restricted_zone"},
                     severity \in {"high", "critical"}}
            ELSE {[detection |-> doc, alert |-> PyNone]} :
        img \in Datasets.human_images, conf \in Uniform(80000, 95000),
        is_suspicious \in BOOLEAN}

\* the audio branch: gunshot when the draw exceeds 0.5 and gunshot samples exist,
\* otherwise human_activity when human audio samples exist
AudioChoices(id, camera) ==
    UNION {
        IF over_half /\ Datasets.gunshot_audio # {}
        THEN {[detection |-> [detection_type |-> "audio", detected_object |-> "gunshot",
                              confidence |-> conf, alert_level |-> "critical",
                              audio_url |-> audio.name] @@ BaseDoc(id, camera),
               alert |-> AlertDoc(id, camera, "gunshot", "critical")] :
                 audio \in Datasets.gunshot_audio, conf \in Uniform(85000, 98000)}
        ELSE IF Datasets.human_audio # {}
        THEN {[detection |-> [detection_type |-> "audio", detected_object |-> "human_activity",
                              confidence |-> conf, alert_level |-> "medium",
                              audio_url |-> audio.name] @@ BaseDoc(id, camera),
               alert |-> PyNone] :
                 audio \in Datasets.human_audio, conf \in Uniform(70000, 90000)}
        ELSE {NoDetection} :
        over_half \in BOOLEAN}

\* mutant: the camera lookup without its is_active filter
FindActiveCameras_Unfiltered == DOMAIN cameras

\* list(db.camera_traps.find({'is_active': True}))
FindActiveCameras == {c \in DOMAIN cameras : Match(cameras[c], "is_active", TRUE)}

\* generate_detection_with_pymongo: what one call builds, over its random choices
GenerateDetection(id, force_audio) ==
    IF FindActiveCameras = {} THEN {NoDetection}
    ELSE UNION {
        CASE detection_type = "animal" /\ Datasets.animal_images # {} -> AnimalChoices(id, camera)
          [] detection_type = "human" /\ Datasets.human_images # {} -> HumanChoices(id, camera)
          [] detection_type = "audio" -> AudioChoices(id, camera)
          [] OTHER -> {NoDetection} :
        camera \in FindActiveCameras,
        detection_type \in IF force_audio THEN {"audio"}
                           ELSE {"animal", "human", "audio", "fused"}}

\* the scenarios generate_fused_detection can pick
Scenarios ==
    (IF Datasets.human_images # {} /\ Datasets.gunshot_audio # {}
     THEN {[image_pool |-> "human_images", audio_pool |-> "gunshot_audio", audio_class |-> "gunshot"]}
     ELSE {})
    \cup
    (IF Datasets.animal_images # {} /\ Datasets.gunshot_audio # {}
     THEN {[image_pool |-> "animal_images", audio_pool |-> "gunshot_audio", audio_class |-> "gunshot"]}
     ELSE {})

\* generate_fused_detection: what one call builds, over its random choices
GenerateFused(id) ==
    IF FindActiveCameras = {} \/ Scenarios = {} THEN {NoDetection}
    ELSE UNION {{
        LET visual_object == IF scenario.image_pool = "human_images" THEN "human"
                             ELSE DetectedAnimal(img)
            fused_result == fuse(LateFusionEngineInit(600, 400),
                                 [confidence |-> visual_conf, detected_object |-> visual_object],
                                 [confidence |-> audio_conf, predicted_class |-> scenario.audio_class])
        IN  [detection |->
                 [detection_type |-> "fused",
                  detected_object |-> fused_result.detected_object,
                  confidence |-> FromRound4(fused_result.fusion_confidence),
                  alert_level |-> fused_result.alert_level,
                  image_url |-> img.name,
                  audio_url |-> audio.name,
                  visual_confidence |-> FromRound4(fused_result.visual_confidence),
                  audio_confidence |-> FromRound4(fused_result.audio_confidence),
                  fusion_confidence |-> FromRound4(fused_result.fusion_confidence),
                  fusion_method |-> fused_result.fusion_method] @@ BaseDoc(id, camera),
             alert |->
                 IF fused_result.escalation_applied
                 THEN AlertDoc(id, camera,
                               IF fused_result.detected_object \in PoacherLabels
                               THEN "armed_person" ELSE "gunshot",
                               fused_result.alert_level)
                 ELSE PyNone] :
        camera \in FindActiveCameras,
        img \in Datasets[scenario.image_pool],
        audio \in Datasets[scenario.audio_pool],
        visual_conf \in UniformEnds(70000, 95000),
        audio_conf \in UniformEnds(65000, 95000)} :
        scenario \in Scenarios}

\* Thread.is_alive()
IsAlive(thread) == thread.pc \notin {"created", "failed", "stopped"}

\* is_running()
IsRunning == generator_thread # PyNone /\ IsAlive(threads[generator_thread.thread])

\* the Thread object as threading.Thread(...) returns it
NewThread == [pc |-> "created", remaining |-> 0, made |-> 0, pending |-> PyNone, due |-> FALSE]

At(pc) == [pc |-> pc, remaining |-> 0, made |-> 0, pending |-> PyNone, due |-> FALSE]

\* the loop's position after a generation call returned
AfterCall(thread) ==
    IF thread.pc \in {"ordinary", "ordinary_alert"}
    THEN IF thread.remaining > 1
         THEN [pc |-> "ordinary", remaining |-> thread.remaining - 1, made |-> thread.made,
               pending |-> PyNone, due |-> FALSE]
         ELSE At("fused")
    ELSE IF thread.pc \in {"fused", "fused_alert"} THEN At("forced")
    ELSE At("wait")

\* mutant: no except clause, the exception ends the loop function
Caught_EndsWorker == At("failed")

\* the loop's position after an exception reached its except clause
Caught == At("cooldown")

\* the thread after an ordinary call of its inserted a detection
Counted(thread) ==
    IF thread.pc = "ordinary" THEN [thread EXCEPT !.made = @ + 1] ELSE thread

\* mutant: the alert is inserted first, the detection is left for the second insert
GenerationCall_AlertFirst(t, choices, alert_pc) ==
    /\ Len(detections) < MaxStored
    /\ \/ /\ threads' = [threads EXCEPT ![t] = Caught]
          /\ UNCHANGED <<detections, alerts>>
       \/ \E made \in choices :
            IF made.detection = PyNone
            THEN /\ threads' = [threads EXCEPT ![t] = AfterCall(threads[t])]
                 /\ UNCHANGED <<detections, alerts>>
            ELSE IF made.alert = PyNone
            THEN /\ detections' = Append(detections, made.detection)
                 /\ threads' = [threads EXCEPT ![t] = AfterCall(threads[t])]
                 /\ UNCHANGED alerts
            ELSE /\ alerts' = Append(alerts, made.alert)
                 /\ threads' = [threads EXCEPT ![t] = Caught]
                 /\ UNCHANGED detections
    /\ UNCHANGED <<engine, visual_in, audio_in, result, cameras, response,
                   generator_thread, stop_event, callers, stop_called>>

\* the first part of a generation call: the camera lookup, the choices and the insert
\* of detection_doc; a store operation that raises leaves the store as it was
GenerationCall(t, choices, alert_pc) ==
    /\ Len(detections) < MaxStored
    /\ \/ /\ threads' = [threads EXCEPT ![t] = Caught]
          /\ UNCHANGED detections
       \/ \E made \in choices :
            IF made.detection = PyNone
            THEN /\ threads' = [threads EXCEPT ![t] = AfterCall(threads[t])]
                 /\ UNCHANGED detections
            ELSE /\ detections' = Append(detections, made.detection)
                 /\ threads' = [threads EXCEPT ![t] =
                        IF made.alert = PyNone THEN AfterCall(Counted(threads[t]))
                        ELSE [Counted(threads[t]) EXCEPT !.pc = alert_pc,
                                                         !.pending = made.alert]]
    /\ UNCHANGED <<engine, visual_in, audio_in, result, cameras, response,
                   alerts, generator_thread, stop_event, callers, stop_called>>

\* start_generator, entered: the test of the handle
StartGenerator(c) ==
    /\ callers[c] = "idle"
    /\ callers' = [callers EXCEPT ![c] = IF IsRunning THEN "start_already" ELSE "start_clear"]
    /\ UNCHANGED <<engine, visual_in, audio_in, result, detections, cameras, response,
                   alerts, generator_thread, stop_event, threads, stop_called>>

\* start_generator found a live worker: it prints and returns
StartAlready(c) ==
    /\ callers[c] = "start_already"
    /\ callers' = [callers EXCEPT ![c] = "idle"]
    /\ UNCHANGED <<engine, visual_in, audio_in, result, detections, cameras, response,
                   alerts, generator_thread, stop_event, threads, stop_called>>

\* _stop_event.clear()
StartClear(c) ==
    /\ callers[c] = "start_clear"
    /\ stop_event' = FALSE
    /\ callers' = [callers EXCEPT ![c] = "start_create"]
    /\ UNCHANGED <<engine, visual_in, audio_in, result, detections, cameras, response,
                   alerts, generator_thread, threads, stop_called>>

\* _generator_thread = threading.Thread(...)
StartCreate(c) ==
    /\ callers[c] = "start_create"
    /\ Len(threads) < MaxThreads
    /\ threads' = Append(threads, NewThread)
    /\ generator_thread' = [thread |-> Len(threads) + 1]
    /\ callers' = [callers EXCEPT ![c] = "start_launch"]
    /\ UNCHANGED <<engine, visual_in, audio_in, result, detections, cameras, response,
                   alerts, stop_event, stop_called>>

\* _generator_thread.start(), on the Thread the global names now: AttributeError on
\* None and RuntimeError on a Thread already started end the call
StartLaunch(c) ==
    /\ callers[c] = "start_launch"
    /\ callers' = [callers EXCEPT ![c] = "idle"]
    /\ IF generator_thread # PyNone /\ threads[generator_thread.thread].pc = "created"
       THEN threads' = [threads EXCEPT ![generator_thread.thread] = At("startup")]
       ELSE UNCHANGED threads
    /\ UNCHANGED <<engine, visual_in, audio_in, result, detections, cameras, response,
                   alerts, generator_thread, stop_event, stop_called>>

\* stop_generator, entered: the test of the handle
StopGenerator(c) ==
    /\ callers[c] = "idle"
    /\ stop_called' = TRUE
    /\ callers' = [callers EXCEPT ![c] = IF generator_thread = PyNone THEN "idle" ELSE "stop_set"]
    /\ UNCHANGED <<engine, visual_in, audio_in, result, detections, cameras, response,
                   alerts, generator_thread, stop_event, threads>>

\* _stop_event.set()
StopSet(c) ==
    /\ callers[c] = "stop_set"
    /\ stop_event' = TRUE
    /\ callers' = [callers EXCEPT ![c] = "stop_join"]
    /\ UNCHANGED <<engine, visual_in, audio_in, result, detections, cameras, response,
                   alerts, generator_thread, threads, stop_called>>

\* _generator_thread.join(timeout=5) returns: the thread ended or the timeout passed;
\* AttributeError on None and RuntimeError on a Thread not started end the call
StopJoin(c) ==
    /\ callers[c] = "stop_join"
    /\ callers' = [callers EXCEPT ![c] =
           IF generator_thread # PyNone /\ threads[generator_thread.thread].pc # "created"
           THEN "stop_reset" ELSE "idle"]
    /\ UNCHANGED <<engine, visual_in, audio_in, result, detections, cameras, response,
                   alerts, generator_thread, stop_event, threads, stop_called>>

\* mutant: stop_generator keeps the handle
StopReset_KeepsHandle(c) ==
    /\ callers[c] = "stop_reset"
    /\ callers' = [callers EXCEPT ![c] = "idle"]
    /\ UNCHANGED <<engine, visual_in, audio_in, result, detections, cameras, response,
                   alerts, generator_thread, stop_event, threads, stop_called>>

\* _generator_thread = None
StopReset(c) ==
    /\ callers[c] = "stop_reset"
    /\ generator_thread' = PyNone
    /\ callers' = [callers EXCEPT ![c] = "idle"]
    /\ UNCHANGED <<engine, visual_in, audio_in, result, detections, cameras, response,
                   alerts, stop_event, threads, stop_called>>

\* a worker step that changes only the worker's position
WorkerStep(t, thread) ==
    /\ threads' = [threads EXCEPT ![t] = thread]
    /\ UNCHANGED <<engine, visual_in, audio_in, result, detections, cameras, response,
                   alerts, generator_thread, stop_event, callers, stop_called>>

\* the interval of the sleep or wait a worker is in passes
TimePasses(t) ==
    /\ t \in DOMAIN threads
    /\ threads[t].pc \in {"startup", "wait", "cooldown"}
    /\ ~threads[t].due
    /\ WorkerStep(t, [threads[t] EXCEPT !.due = TRUE])

\* time.sleep(5) ends
WorkerStartup(t) ==
    /\ t \in DOMAIN threads
    /\ threads[t].pc = "startup"
    /\ threads[t].due
    /\ WorkerStep(t, At("connect"))

\* the connection set-up: done, or the function returns (no host configured, or an
\* exception)
WorkerConnect(t) ==
    /\ t \in DOMAIN threads
    /\ threads[t].pc = "connect"
    /\ \E connected \in BOOLEAN : WorkerStep(t, IF connected THEN At("loop") ELSE At("failed"))

\* the loop without the test of the stop flag
WorkerLoop_IgnoresFlag(t) ==
    /\ t \in DOMAIN threads
    /\ threads[t].pc = "loop"
    /\ \E num_detections \in 1..3 :
           WorkerStep(t, [At("ordinary") EXCEPT !.remaining = num_detections])

\* while not _stop_event.is_set(): ... num_detections = random.randint(1, 3)
WorkerLoop(t) ==
    /\ t \in DOMAIN threads
    /\ threads[t].pc = "loop"
    /\ IF stop_event
       THEN WorkerStep(t, At("cleanup"))
       ELSE \E num_detections \in 1..3 :
                WorkerStep(t, [At("ordinary") EXCEPT !.remaining = num_detections])

\* generate_detection_with_pymongo(db, media_root), up to the insert of the detection
GenerateOrdinary(t) ==
    /\ t \in DOMAIN threads
    /\ threads[t].pc = "ordinary"
    /\ GenerationCall(t, GenerateDetection(Len(detections) + 1, FALSE), "ordinary_alert")

\* generate_fused_detection(db, media_root), up to the insert of the detection
GenerateFusedDetection(t) ==
    /\ t \in DOMAIN threads
    /\ threads[t].pc = "fused"
    /\ GenerationCall(t, GenerateFused(Len(detections) + 1), "fused_alert")

\* generate_detection_with_pymongo(db, media_root, force_audio=True), likewise
GenerateForcedAudio(t) ==
    /\ t \in DOMAIN threads
    /\ threads[t].pc = "forced"
    /\ GenerationCall(t, GenerateDetection(Len(detections) + 1, TRUE), "forced_alert")

\* db.emergency_alerts.insert_one(alert_doc) and the return of the generation call;
\* when the insert raises, the exception reaches the loop
InsertAlert(t) ==
    /\ t \in DOMAIN threads
    /\ threads[t].pc \in {"ordinary_alert", "fused_alert", "forced_alert"}
    /\ \/ /\ alerts' = Append(alerts, threads[t].pending)
          /\ threads' = [threads EXCEPT ![t] = AfterCall(threads[t])]
       \/ /\ threads' = [threads EXCEPT ![t] = Caught]
          /\ UNCHANGED alerts
    /\ UNCHANGED <<engine, visual_in, audio_in, result, detections, cameras, response,
                   generator_thread, stop_event, callers, stop_called>>

\* _stop_event.wait(timeout=wait_time) returns: the flag was set or the time passed
WorkerWait(t) ==
    /\ t \in DOMAIN threads
    /\ threads[t].pc = "wait"
    /\ threads[t].due \/ stop_event
    /\ WorkerStep(t, At("loop"))

\* time.sleep(30) in the except clause ends
WorkerCooldown(t) ==
    /\ t \in DOMAIN threads
    /\ threads[t].pc = "cooldown"
    /\ threads[t].due
    /\ WorkerStep(t, At("loop"))

\* client.close(); the loop function returns
WorkerCleanup(t) ==
    /\ t \in DOMAIN threads
    /\ threads[t].pc = "cleanup"
    /\ WorkerStep(t, At("stopped"))

\* the steps of a worker outside the alert insert
WorkerLoopNext(t) ==
    \/ TimePasses(t)
    \/ WorkerStartup(t)
    \/ WorkerConnect(t)
    \/ WorkerLoop(t)
    \/ GenerateOrdinary(t)
    \/ GenerateFusedDetection(t)
    \/ GenerateForcedAudio(t)
    \/ WorkerWait(t)
    \/ WorkerCooldown(t)
    \/ WorkerCleanup(t)

WorkerNext(t) ==
    \/ WorkerLoopNext(t)
    \/ InsertAlert(t)

CallerNext(c) ==
    \/ StartGenerator(c)
    \/ StartAlready(c)
    \/ StartClear(c)
    \/ StartCreate(c)
    \/ StartLaunch(c)
    \/ StopGenerator(c)
    \/ StopSet(c)
    \/ StopJoin(c)
    \/ StopReset(c)

\* camera_traps without an active camera
NoActiveCameras == [c \in DOMAIN CameraTraps |-> [CameraTraps[c] EXCEPT !.is_active = FALSE]]

FusionIdle ==
    /\ engine = PyNone
    /\ visual_in = PyNone
    /\ audio_in = PyNone
    /\ result = PyNone
    /\ response = PyNone

\* one run of the server: a single thread calls start_generator until stop_generator
\* is first called; the store has an active camera or none
GenInit ==
    /\ FusionIdle
    /\ detections = <<>>
    /\ cameras \in {CameraTraps, NoActiveCameras}
    /\ GeneratorIdle

GenNext ==
    \/ ~stop_called /\ StartGenerator("c1")
    \/ StartAlready("c1")
    \/ StartClear("c1")
    \/ StartCreate("c1")
    \/ StartLaunch("c1")
    \/ StopGenerator("c1")
    \/ StopSet("c1")
    \/ StopJoin("c1")
    \/ StopReset("c1")
    \/ \E t \in ThreadIds : WorkerNext(t)

GenSpec == GenInit /\ [][GenNext]_vars

\* every thread of CallerIds calls start_generator and stop_generator at any time; the
\* store has no active camera, so that the workers' batches write nothing and no
\* generation call reaches an alert insert
ThreadInit ==
    /\ FusionIdle
    /\ detections = <<>>
    /\ cameras = NoActiveCameras
    /\ GeneratorIdle

ThreadNext ==
    \/ \E c \in CallerIds : CallerNext(c)
    \/ \E t \in ThreadIds : WorkerLoopNext(t)

ThreadSpec == ThreadInit /\ [][ThreadNext]_vars

\* the detections the generator's calls build for the next free id
GeneratedDetections ==
    {made.detection :
        made \in (GenerateDetection(Len(detections) + 1, FALSE)
                  \cup GenerateFused(Len(detections) + 1)) \ {NoDetection}}

\* the generator has written a detection (db.detections.insert_one of a generation call)
InsertGenerated ==
    /\ response = PyNone
    /\ Len(detections) < MaxDetections
    /\ \E d \in GeneratedDetections : detections' = Append(detections, d)
    /\ UNCHANGED <<engine, visual_in, audio_in, result, cameras, response, genVars>>

\* verify_detection, with every combination of the two flags in the body
VerifyAnyBody == VerifyWith(VerifyRequests)

\* admins verify the detections the generator wrote
VerifyNext ==
    \/ InsertGenerated
    \/ VerifyAnyBody
    \/ Deliver

VerifySpec == Init /\ [][VerifyNext]_vars

\* a single thread calls start_generator and stop_generator, one call after the other
SeqNext ==
    \/ CallerNext("c1")
    \/ \E t \in ThreadIds : WorkerLoopNext(t)

SeqSpec == ThreadInit /\ [][SeqNext]_vars

\* a single thread calls start_generator and stop_generator, and never start_generator
\* after a call of stop_generator
StopNext ==
    \/ ~stop_called /\ StartGenerator("c1")
    \/ StartAlready("c1")
    \/ StartClear("c1")
    \/ StartCreate("c1")
    \/ StartLaunch("c1")
    \/ StopGenerator("c1")
    \/ StopSet("c1")
    \/ StopJoin("c1")
    \/ StopReset("c1")
    \/ \E t \in ThreadIds : WorkerLoopNext(t)

\* a started worker thread keeps being scheduled, and each of its steps and sleeps
\* ends
StopSpec ==
    /\ ThreadInit
    /\ [][StopNext]_vars
    /\ \A t \in ThreadIds : WF_vars(WorkerLoopNext(t))

(***************************************************************************)
(* Properties of the fusion engine (checked under Spec)                    *)
(***************************************************************************)
\* fuse has been called on the held inputs and returned a fused_result
Returned == result # PyNone /\ "raised" \notin DOMAIN result

\* fuse has been called on the held inputs and raised
Raised == result # PyNone /\ "raised" \in DOMAIN result

HasVisual == visual_in # PyNone
HasAudio == audio_in # PyNone

\* the confidence and label an input carries (0 and "" when the key is missing)
InConf(d) == IF d # PyNone /\ "confidence" \in DOMAIN d THEN d.confidence ELSE 0
VisualLabel == IF HasVisual /\ "detected_object" \in DOMAIN visual_in THEN visual_in.detected_object ELSE ""
AudioLabel == IF HasAudio /\ "predicted_class" \in DOMAIN audio_in THEN audio_in.predicted_class ELSE ""

Abs(x) == IF x < 0 THEN 0 - x ELSE x

\* the exact fused confidence the specification prescribes for the held inputs and the
\* weights the engine was constructed with, counted in 1/FusedScale
ExactFused ==
    IF HasVisual /\ HasAudio
    THEN engine.args[1] * InConf(visual_in) + engine.args[2] * InConf(audio_in)
    ELSE IF HasVisual THEN WeightScale * InConf(visual_in)
    ELSE WeightScale * InConf(audio_in)

\* the severity thresholds, on a value counted in 1/scale
Severity(c, scale) ==
    CASE c >= 90 * (scale \div 100) -> "critical"
      [] c >= 80 * (scale \div 100) /\ c < 90 * (scale \div 100) -> "high"
      [] c >= 65 * (scale \div 100) /\ c < 80 * (scale \div 100) -> "medium"
      [] c >= 50 * (scale \div 100) /\ c < 65 * (scale \div 100) -> "low"
      [] c < 50 * (scale \div 100) -> "none"

\* C1: with at least one input present, fuse reports fusion_type full and
\* vw*visualConf + aw*audioConf when both inputs are present, visual_only and the
\* visual confidence when only visual is, audio_only and the audio confidence when only
\* audio is; the reported confidence equals the exact one up to the 4-decimal rounding.
C1_FusionConfidence ==
    Returned =>
        /\ result.fusion_type = (IF HasVisual /\ HasAudio THEN "full"
                                 ELSE IF HasVisual THEN "visual_only" ELSE "audio_only")
        /\ 2 * Abs(result.fusion_confidence * (FusedScale \div RoundScale) - ExactFused)
              <= FusedScale \div RoundScale

\* C1 witness: default weights, 0.6*0.75 + 0.4*0.50 = 0.65 reported by a full fusion
C1_Witness ==
    /\ Returned
    /\ engine.args = <<600, 400>>
    /\ HasVisual /\ HasAudio
    /\ InConf(visual_in) = 75000 /\ InConf(audio_in) = 50000
    /\ result.fusion_type = "full"
    /\ result.fusion_confidence = 6500

\* C2: when no escalation rule fires the severity is the threshold function of the
\* fused confidence, each boundary value belonging to the higher level.
C2_SeverityThresholds ==
    (Returned /\ ~result.escalation_applied) =>
        result.alert_level = Severity(ExactFused, FusedScale)

\* C2 witness: a fused confidence of exactly 0.90 without escalation is critical
C2_Witness ==
    /\ Returned
    /\ ~result.escalation_applied
    /\ ExactFused = 90 * (FusedScale \div 100)
    /\ HasVisual /\ HasAudio
    /\ result.alert_level = "critical"

\* the five registered rules, as the specification tabulates them
RegisteredPairs ==
    {<<"human", "gunshot">>, <<"human", "chainsaw">>, <<"human", "vehicle">>,
     <<"vehicle", "gunshot">>, <<"poacher", "gunshot">>}

RuleSeverity(vl, al) == IF <<vl, al>> = <<"human", "vehicle">> THEN "high" ELSE "critical"

RuleLabel(vl, al) ==
    CASE <<vl, al>> = <<"human", "gunshot">> -> "armed_poacher"
      [] <<vl, al>> = <<"human", "chainsaw">> -> "illegal_logging"
      [] <<vl, al>> = <<"human", "vehicle">> -> "suspicious_vehicle"
      [] <<vl, al>> = <<"vehicle", "gunshot">> -> "armed_vehicle"
      [] <<vl, al>> = <<"poacher", "gunshot">> -> "confirmed_poacher"

Registered == HasVisual /\ HasAudio /\ <<VisualLabel, AudioLabel>> \in RegisteredPairs

\* C3: escalation_applied is true iff both inputs are present and their labels are one of
\* the five registered pairs; then alert_level and detected_object are the rule's and
\* escalation_rule is "<visual>+<audio>"; otherwise the call returns without raising,
\* escalation_rule is absent and severity and label keep their base values.
C3_Escalation ==
    /\ (result # PyNone /\ (HasVisual \/ HasAudio)) => Returned
    /\ Returned =>
        /\ result.escalation_applied <=> Registered
        /\ Registered =>
            /\ result.alert_level = RuleSeverity(VisualLabel, AudioLabel)
            /\ result.detected_object = RuleLabel(VisualLabel, AudioLabel)
            /\ result.escalation_rule = VisualLabel \o "+" \o AudioLabel
        /\ ~Registered =>
            /\ result.escalation_rule = PyNone
            /\ result.alert_level = ConfidenceToAlert(ExactFused)
            /\ result.detected_object =
                   DeterminePrimaryObject(VisualLabel, AudioLabel,
                                          InConf(visual_in), InConf(audio_in))

\* C3 witness: human + vehicle escalates to high / suspicious_vehicle
C3_Witness ==
    /\ Returned
    /\ VisualLabel = "human" /\ AudioLabel = "vehicle"
    /\ result.escalation_applied
    /\ result.alert_level = "high"
    /\ result.detected_object = "suspicious_vehicle"
    /\ result.escalation_rule = "human+vehicle"

C5_AlertMatchesReportedConfidence ==
    (Returned /\ ~result.escalation_applied) =>
        result.alert_level = Severity(result.fusion_confidence, RoundScale)

\* C6: fuse called with both inputs absent raises and returns no result.
C6_NoInputRaises ==
    (result # PyNone /\ ~HasVisual /\ ~HasAudio) =>
        (Raised /\ result.raised = "ValueError")

\* C6 witness: fuse has been called with both inputs absent
C6_Witness == Raised /\ ~HasVisual /\ ~HasAudio /\ IsEngine(engine)

\* C7: construction fails iff |vw + aw - 1.0| > 0.01; otherwise the engine holds exactly
\* the weights given.
C7_WeightValidation ==
    engine # PyNone =>
        LET vw == engine.args[1]
            aw == engine.args[2]
        IN  /\ ("raised" \in DOMAIN engine.obj)
                 <=> (100 * (vw + aw) > 101 * WeightScale \/ 100 * (vw + aw) < 99 * WeightScale)
            /\ IsEngine(engine) =>
                 (engine.obj.visual_weight = vw /\ engine.obj.audio_weight = aw)

\* C7 witness: weights summing to 1.005 are accepted and kept as given
C7_Witness ==
    /\ IsEngine(engine)
    /\ engine.args = <<600, 405>>
    /\ engine.obj.visual_weight = 600 /\ engine.obj.audio_weight = 405

\* C8: fuse raises for every input whose confidence lies outside [0, 1].
C8_OutOfRangeRejected ==
    (result # PyNone /\ \E d \in {visual_in, audio_in} :
                            InConf(d) < 0 \/ InConf(d) > ConfScale)
        => Raised

(***************************************************************************)
(* Properties of the views (checked under ViewSpec)                        *)
(***************************************************************************)
\* the visibility predicate of the specification, on a stored document
IsVisible(d) ==
    \/ ("is_verified" \in DOMAIN d /\ d.is_verified = TRUE)
    \/ d.alert_level \in {"high", "critical"}

\* the stored documents a pending response returns
Returned_Docs ==
    IF response = PyNone THEN {}
    ELSE {detections[response.data[i].id] : i \in DOMAIN response.data}

\* C9: every detection returned by user_alerts and by user_dashboard's recent_detections
\* is verified or has alert level high or critical, for every store content and every
\* severity/level and days parameter.
C9_ListsSatisfyVisibility ==
    (response # PyNone /\ response.op \in {"user_alerts", "user_dashboard"}) =>
        /\ \A d \in Returned_Docs : IsVisible(d)
        /\ \A i \in DOMAIN response.data :
               response.data[i].is_verified \/ response.data[i].alert_level \in {"high", "critical"}

\* C9 witness: user_alerts returns an unverified critical detection while an unverified
\* medium detection of the same active camera and window is held back
C9_Witness ==
    /\ response # PyNone
    /\ response.op = "user_alerts"
    /\ \E d \in Returned_Docs :
           /\ "is_verified" \notin DOMAIN d
           /\ d.alert_level = "critical"
    /\ \E d \in Docs \ Returned_Docs :
           /\ "is_verified" \notin DOMAIN d
           /\ d.alert_level = "medium"
           /\ d.camera_trap \in ActiveCameraIds

\* C10: no unverified detection of level none, low or medium is returned to a caller of
\* role 'user' by any view, in a list or as a single record.
C10_NoHiddenDetectionExposed ==
    (response # PyNone /\ Users[response.user].role = "user") =>
        \A d \in Returned_Docs : IsVisible(d)

\* C11: when user_alerts is called without a severity or level parameter, every
\* verified detection inside the date window on an active camera is returned,
\* whatever its alert level.
C11_VerifiedShownAtEveryLevel ==
    (response # PyNone /\ response.op = "user_alerts" /\ SeverityFilter(response.GET) = "") =>
        \A d \in Docs :
            (/\ Match(d, "is_verified", TRUE)
             /\ d.created_at >= Now - Get(response.GET, "days", 7)
             /\ d.camera_trap \in ActiveCameraIds)
            => d \in Returned_Docs
(***************************************************************************)
(* Properties of the generator's thread control                            *)
(***************************************************************************)
\* the Thread objects whose loop function is running
Alive == {t \in DOMAIN threads : IsAlive(threads[t])}

\* nobody is inside start_generator or stop_generator
NoCallActive == \A c \in CallerIds : callers[c] = "idle"

\* C12: when start_generator is called concurrently from the idle state (no stop
\* involved, no worker has returned), then once the calls have returned exactly one
\* worker is alive.
C12_ExactlyOneWorker ==
    (/\ ~stop_called
     /\ NoCallActive
     /\ threads # <<>>
     /\ \A t \in DOMAIN threads : threads[t].pc \notin {"failed", "stopped"})
    => Cardinality(Alive) = 1

\* C13: a start_generator call made while a worker is alive and nobody else is inside
\* start_generator or stop_generator takes the 'Already running' return: it does not
\* go on to clear the flag and create a thread, and its return changes neither the
\* threads, nor the handle, nor the flag.
C13_StartWhileAliveIsNoOp ==
    [][\A c \in CallerIds :
          /\ (/\ callers[c] = "idle"
              /\ callers'[c] \in {"start_already", "start_clear"}
              /\ \A o \in CallerIds \ {c} : callers[o] = "idle"
              /\ Alive # {})
             => callers'[c] = "start_already"
          /\ (callers[c] = "start_already" /\ callers'[c] = "idle")
             => (threads' = threads /\ generator_thread' = generator_thread
                 /\ stop_event' = stop_event)]_vars

AlertsOf(d) == {i \in DOMAIN alerts : alerts[i].detection = d._id}

\* the labels the escalation rules assign
EscalationLabels == {ESCALATION_RULES[p].label : p \in DOMAIN ESCALATION_RULES}

\* the detections for which the claim requires an alert
AlertDue(d) ==
    \/ d.detection_type = "fused" /\ d.detected_object \in EscalationLabels
    \/ d.detection_type \in {"image", "audio"} /\ d.alert_level \in {"high", "critical"}

\* C15: in every store state a detection has an EmergencyAlert iff it is a fused
\* detection with an escalation rule applied or an image/audio detection of level high
\* or critical.
C15_AlertIffDue ==
    \A d \in Docs : (AlertsOf(d) # {}) <=> AlertDue(d)

\* C16: in every store state every stored alert references a stored detection.
C16_AlertReferencesStoredDetection ==
    \A i \in DOMAIN alerts : \E d \in Docs : d._id = alerts[i].detection

\* C16 witness: between the two inserts of a call (the detection is stored, its alert
\* is still to be inserted) while an earlier alert is stored
C16_Witness ==
    /\ alerts # <<>>
    /\ \E t \in DOMAIN threads :
           /\ threads[t].pc \in {"ordinary_alert", "fused_alert", "forced_alert"}
           /\ \E d \in Docs : d._id = threads[t].pending.detection /\ AlertsOf(d) = {}

\* the positions inside the generation calls of a batch
CallPcs == {"ordinary", "ordinary_alert", "fused", "fused_alert", "forced", "forced_alert"}

NoCameraActive == \A c \in DOMAIN cameras : ~cameras[c].is_active

\* C18: while no camera is active no step changes the two collections, no generation
\* call gets as far as an alert insert, and both collections are empty.
C18_NoActiveCameraNoWrites ==
    /\ [][NoCameraActive => (detections' = detections /\ alerts' = alerts)]_vars
    /\ [](NoCameraActive =>
             /\ detections = <<>>
             /\ alerts = <<>>
             /\ \A t \in DOMAIN threads :
                    threads[t].pc \notin {"ordinary_alert", "fused_alert", "forced_alert"})

\* C18 witness: without an active camera a worker has gone through a batch to the
\* inter-batch wait
C18_Witness ==
    /\ NoCameraActive
    /\ \E t \in DOMAIN threads : threads[t].pc = "wait"
    /\ detections = <<>>

(***************************************************************************)
(* Properties of the verification action (checked under VerifySpec)        *)
(***************************************************************************)
VerificationFields == {"is_verified", "false_positive", "notes", "verified_by"}

\* the document without its verification fields
Evidence(d) == [k \in DOMAIN d \ VerificationFields |-> d[k]]

\* C19: no step changes a field of a stored detection other than the four
\* verification fields (label, confidence, alert level, kind, camera, creation time,
\* evidence URLs and fusion metadata stay as created), and a step changes at most one
\* stored detection.
C19_VerificationChangesOnlyItsFields ==
    [][/\ \A i \in DOMAIN detections :
              i \in DOMAIN detections' /\ Evidence(detections'[i]) = Evidence(detections[i])
       /\ Cardinality({i \in DOMAIN detections : detections'[i] # detections[i]}) <= 1]_vars

\* C19 witness: a gunshot detection has been marked verified and false positive with a
\* note, next to a detection that no verification has touched
C19_Witness ==
    /\ \E d \in Docs :
           /\ d.detected_object = "gunshot"
           /\ Match(d, "is_verified", TRUE)
           /\ Match(d, "notes", "duplicate")
           /\ d.confidence = 85000
    /\ \E d \in Docs : DOMAIN d \cap VerificationFields = {}

\* C20: no stored detection is marked verified and false positive at once.
C20_VerifiedExcludesFalsePositive ==
    \A d \in Docs : ~(Match(d, "is_verified", TRUE) /\ Match(d, "false_positive", TRUE))

(***************************************************************************)
(* Further properties of the fusion engine (checked under Spec)            *)
(***************************************************************************)
\* the input that is present has its confidence inside [0, 1]
InUnitRange(d) == d = PyNone \/ (InConf(d) >= 0 /\ InConf(d) <= ConfScale)

\* C27: for every weight pair the constructor accepted and input confidences in
\* [0, 1], the fusion_confidence fuse returns lies in [0, 1].
C27_FusionConfidenceInUnitRange ==
    (Returned /\ InUnitRange(visual_in) /\ InUnitRange(audio_in)) =>
        (result.fusion_confidence >= 0 /\ result.fusion_confidence <= RoundScale)

\* the position of a level in none < low < medium < high < critical
Rank(level) ==
    CASE level = "none" -> 0
      [] level = "low" -> 1
      [] level = "medium" -> 2
      [] level = "high" -> 3
      [] level = "critical" -> 4

\* C28: in every full fusion in which an escalation rule fires, the final alert_level
\* is at least as severe as the level the thresholds assign to the fused confidence.
C28_EscalationNeverLowers ==
    (Returned /\ result.escalation_applied) =>
        Rank(result.alert_level) >= Rank(ConfidenceToAlert(ExactFused))

(***************************************************************************)
(* Further properties of the generator's batches (checked under GenSpec)   *)
(***************************************************************************)
\* the positions at which a generation call is about to begin
CallStartPcs == {"ordinary", "fused", "forced"}

\* the positions between the two inserts of a generation call
AlertPcs == {"ordinary_alert", "fused_alert", "forced_alert"}

\* C21: a generation call (ordinary, fused or forced-audio) that a worker begins
\* while the stop flag is set writes no detection.
C21_NoCallBeginsAfterStop ==
    [][\A t \in DOMAIN threads :
          (stop_event /\ threads[t].pc \in CallStartPcs /\ threads'[t] # threads[t])
          => detections' = detections]_vars

\* C23: whenever no generation call is between its two inserts, every stored
\* detection that requires an alert (suspicious human, gunshot, escalated fused) has
\* its alert stored, whatever store failures occurred before.
C23_AllOrNothing ==
    (\A t \in DOMAIN threads : threads[t].pc \notin AlertPcs)
    => \A d \in Docs : AlertDue(d) => AlertsOf(d) # {}

\* an active camera exists and all four sample pools are non-empty
FullySupplied ==
    /\ ~NoCameraActive
    /\ \A pool \in DOMAIN Datasets : Datasets[pool] # {}

\* C24: with an active camera and all pools non-empty, when the ordinary calls of a
\* batch are over (the worker goes on to the fused call) they have inserted at least 1
\* and at most 3 detections.
C24_OrdinaryStepInsertsOneToThree ==
    [][\A t \in DOMAIN threads :
          (/\ FullySupplied
           /\ threads[t].pc \in {"ordinary", "ordinary_alert"}
           /\ threads'[t].pc = "fused")
          => LET inserted == threads[t].made + (Len(detections') - Len(detections))
             IN  inserted >= 1 /\ inserted <= 3]_vars

\* C25: with an active camera and non-empty audio pools, a forced-audio call that
\* does not raise inserts exactly one detection, of type audio and level critical.
C25_ForcedAudioIsCritical ==
    [][\A t \in DOMAIN threads :
          (/\ ~NoCameraActive
           /\ Datasets.gunshot_audio # {} /\ Datasets.human_audio # {}
           /\ threads[t].pc = "forced"
           /\ threads'[t].pc \in {"forced_alert", "wait"})
          => /\ Len(detections') = Len(detections) + 1
             /\ detections'[Len(detections')].detection_type = "audio"
             /\ detections'[Len(detections')].alert_level = "critical"]_vars

\* the rule identities '<visualLabel>+<audioLabel>' of the rules that assign a label
RuleIdentities(label) ==
    {p[1] \o "+" \o p[2] : p \in {q \in DOMAIN ESCALATION_RULES : ESCALATION_RULES[q].label = label}}

\* C26: every stored fused detection has visual_confidence, audio_confidence and
\* fusion_method, and, when an escalation rule gave it its label, the identity of
\* that rule in escalation_rule.
C26_FusedCarriesMetadata ==
    \A d \in Docs :
        d.detection_type = "fused" =>
            /\ {"visual_confidence", "audio_confidence", "fusion_method"} \subseteq DOMAIN d
            /\ d.detected_object \in EscalationLabels =>
                   MatchIn(d, "escalation_rule", RuleIdentities(d.detected_object))

(***************************************************************************)
(* Further properties of the thread control (checked under SeqSpec)        *)
(***************************************************************************)
\* the worker is suspended: it is in a sleep or wait whose interval has not passed
Suspended(t) == threads[t].pc \in {"startup", "wait", "cooldown"} /\ ~threads[t].due

\* the worker leaves its sleep or wait
Wake(t) == WorkerStartup(t) \/ WorkerWait(t) \/ WorkerCooldown(t)

\* C22: a worker suspended in the start-up delay, the inter-batch wait or the error
\* cooldown can leave its suspension as soon as the stop flag is set, before the
\* interval has passed.
C22_SuspensionInterruptible ==
    \A t \in DOMAIN threads :
        (Suspended(t) /\ stop_event) => ENABLED Wake(t)

\* C29: between calls of start_generator and stop_generator at most one worker is
\* alive, and is_running() is false only when no worker is alive.
C29_AtMostOneWorker ==
    NoCallActive =>
        /\ Cardinality(Alive) <= 1
        /\ ~IsRunning => Alive = {}

(***************************************************************************)
(* Termination of a stopped worker (checked under StopSpec)                *)
(***************************************************************************)
\* the positions of a worker inside `while not _stop_event.is_set()` and its finally
LoopPcs ==
    {"loop", "ordinary", "ordinary_alert", "fused", "fused_alert", "forced",
     "forced_alert", "wait", "cooldown", "cleanup"}

\* C30: when the stop flag is set and start_generator is not called afterwards, every
\* live worker eventually terminates, and a worker that is in its loop eventually
\* closes its connection and returns.
C30_StoppedWorkerTerminates ==
    /\ \A t \in ThreadIds :
           (t \in DOMAIN threads /\ IsAlive(threads[t]) /\ stop_event)
           ~> (t \in DOMAIN threads /\ ~IsAlive(threads[t]))
    /\ \A t \in ThreadIds :
           (t \in DOMAIN threads /\ threads[t].pc \in LoopPcs /\ stop_event)
           ~> (t \in DOMAIN threads /\ threads[t].pc = "stopped")

\* stop_generator has set the flag and a worker has left its loop and returned
C30_Witness ==
    /\ stop_called
    /\ stop_event
    /\ \E t \in DOMAIN threads : threads[t].pc = "stopped"
====
